---- MODULE Spec2Model ----
(***************************************************************************)
(* The benchmark programs of the repository as one state machine:          *)
(*   "gemm"     src/gemm/gemm.cu          host driver + tiled CUDA kernel   *)
(*   "convgpu"  src/conv/gpgpusim/conv.cu host driver + CUDA conv2d kernel  *)
(*   "convseq"  src/unnamed/part_000      sequential conv2d (gem5)          *)
(* A behaviour runs one program: the host executes its statements in       *)
(* order, a kernel launch creates the threads of the grid, and the threads *)
(* of a running kernel interleave freely, held back only by __syncthreads. *)
(* Buffers are flat arrays indexed from 0, values are integers.            *)
(***************************************************************************)
EXTENDS Integers, Sequences, FiniteSets, TLC

(***************************************************************************)
(* Bounds of the model.  The tile edge and the thread-block edge are 16 in *)
(* the source; a block of 256 interleaved threads is far beyond what can   *)
(* be enumerated, so the model scales the edges down and keeps every       *)
(* formula of the code parametric in them.                                  *)
(***************************************************************************)
TILE_M == 2

TILE_N == 2

TILE_K == 2

BLOCK_X == 2

BLOCK_Y == 2

BLOCK_Z == 1

\* largest M and N of a GEMM run
MaxDim == 3

\* largest K of a GEMM run
MaxK == 3

\* largest number of threads in a launched GEMM grid
MaxThreads == 8

\* largest H, W, C and K (output channels) of a convolution run
MaxH == 3

MaxW == 2

MaxC == 2

MaxKo == 2

\* largest number of threads in a launched convolution grid
MaxConvThreads == 8

Progs == {"gemm", "convgpu", "convseq"}

\* the data of a run: the input data set (the constant fill of main, or a
\* ramp that tells every index of a buffer apart) and what freshly allocated
\* memory or an out-of-range read holds in that run
Inputs == {[pat |-> "const", junk |-> 0], [pat |-> "ramp", junk |-> 9]}

VARIABLES
  prog,      \* which program runs
  dim,       \* its dimensions [M, N, K, H, W, I, J, C]
  pat,       \* the input data set
  junk,      \* the content of uninitialised memory in this run
  hpc,       \* host: index of the next statement of Program
  exit,      \* "run", "exit0" (return 0) or "exit1" (exit(1))
  mem,       \* buffer name -> flat array
  stat,      \* buffer name -> "none" | "alloc" | "freed"
  nalloc,    \* buffer name -> successful allocations so far
  nfree,     \* buffer name -> successful frees so far
  failed,    \* some device-API call returned a status other than cudaSuccess
  afterFail, \* device calls and launches executed after such a failure
  badUse,    \* buffers handed to a copy, a kernel or a free while not allocated
  kst,       \* device: "idle" | "running" (a grid is launched) | "fault"
  thr,       \* thread -> [pc, sum, t, nbar, nwr]
  sh,        \* block -> [sA, sB, wA, wB]: tiles and per-element store counts
  lp,        \* sequential conv2d: the loop indices <<h, w, k>>, or "done"
  wcnt,      \* output index -> stores made by the kernel or the loop nest
  kwrites,   \* global buffers a kernel thread or the loop nest has stored to
  oob        \* some access fell outside its buffer

vars == <<prog, dim, pat, junk, hpc, exit, mem, stat, nalloc, nfree, failed,
          afterFail, badUse, kst, thr, sh, lp, wcnt, kwrites, oob>>

----------------------------------------------------------------------------
(* Dimensions and buffers *)

CeilDiv(a, b) == (a + b - 1) \div b

HoOf(d) == d.H - d.I + 1

WoOf(d) == d.W - d.J + 1

Ho == HoOf(dim)

Wo == WoOf(dim)

\* dim3 grid of the GEMM launch
GemmGrid(d) == [x |-> CeilDiv(d.N, TILE_N), y |-> CeilDiv(d.M, TILE_M)]

\* dim3 grid of the convolution launch
ConvGrid(d) ==
  [x |-> CeilDiv(WoOf(d), BLOCK_X), y |-> CeilDiv(HoOf(d), BLOCK_Y),
   z |-> CeilDiv(d.K, BLOCK_Z)]

Dim(m, n, k, h, w, i, j, c) ==
  [M |-> m, N |-> n, K |-> k, H |-> h, W |-> w, I |-> i, J |-> j, C |-> c]

\* the dimensions a run may have: M, N, K >= 0 for GEMM; 1 <= I <= H,
\* 1 <= J <= W, K >= 0 and no channel (C = 0) or MaxC channels for the
\* convolutions
GemmDims ==
  {d \in {Dim(m, n, k, 0, 0, 0, 0, 0) :
            m \in 0 .. MaxDim, n \in 0 .. MaxDim, k \in 0 .. MaxK} :
     GemmGrid(d).x * GemmGrid(d).y * TILE_N * TILE_M <= MaxThreads}

ConvDimsAll ==
  UNION {{Dim(0, 0, k, h, w, i, j, c) : i \in 1 .. h, j \in 1 .. w,
                                        c \in {0, MaxC}, k \in 0 .. MaxKo} :
         h \in 1 .. MaxH, w \in 1 .. MaxW}

ConvGpuDims ==
  {d \in ConvDimsAll :
     ConvGrid(d).x * ConvGrid(d).y * ConvGrid(d).z
       * BLOCK_X * BLOCK_Y * BLOCK_Z <= MaxConvThreads}

DimsOf(p) ==
  CASE p = "gemm" -> GemmDims
    [] p = "convgpu" -> ConvGpuDims
    [] OTHER -> ConvDimsAll

HostBufs ==
  IF prog = "gemm" THEN {"A", "B", "C"} ELSE {"input", "weight", "output"}

DevBufs ==
  CASE prog = "gemm" -> {"dA", "dB", "dC"}
    [] prog = "convgpu" -> {"d_input", "d_weight", "d_output"}
    [] OTHER -> {}

Bufs == HostBufs \cup DevBufs

\* number of elements of a buffer (the byte sizes of the code over sizeof(float))
Size(b) ==
  CASE b \in {"A", "dA"} -> dim.M * dim.K
    [] b \in {"B", "dB"} -> dim.K * dim.N
    [] b \in {"C", "dC"} -> dim.M * dim.N
    [] b \in {"input", "d_input"} -> dim.H * dim.W * dim.C
    [] b \in {"weight", "d_weight"} -> dim.I * dim.J * dim.C * dim.K
    [] b \in {"output", "d_output"} -> Ho * Wo * dim.K

Fresh(b) == [i \in 0 .. Size(b) - 1 |-> junk]

\* the value main stores at index i of buffer b.  "const" is main's own
\* fill (GEMM: 1.f, 1.f, 0.f; convolution: 1.0f and 0.1f, held in tenths);
\* "ramp" stands for any other caller of the routines.
FillValue(b, i) ==
  CASE b = "C" -> 0
    [] b \in {"A", "B"} /\ pat = "const" -> 1
    [] b = "A" -> i + 1
    [] b = "B" -> 2 * i + 1
    [] b = "input" /\ pat = "const" -> 10
    [] b = "weight" /\ pat = "const" -> 1
    [] b = "input" -> i + 1
    [] b = "weight" -> (i % 3) + 1

\* a read, and whether an index is inside its buffer
InBuf(b, i) == i \in DOMAIN mem[b]

Rd(b, i) == IF InBuf(b, i) THEN mem[b][i] ELSE junk

----------------------------------------------------------------------------
(* The host programs, statement by statement *)

St(op, buf, src, line) == [op |-> op, buf |-> buf, src |-> src, line |-> line]

\* the driver with the copy back to the host (line 87) put back in
GemmProgram_CopyBack == <<
  St("malloc", "A", "", 103), St("malloc", "B", "", 104),
  St("malloc", "C", "", 105),
  St("fill", "A", "", 107), St("fill", "B", "", 108), St("fill", "C", "", 109),
  St("cudaMalloc", "dA", "", 70), St("cudaMalloc", "dB", "", 71),
  St("cudaMalloc", "dC", "", 72),
  St("cudaMemcpy", "dA", "A", 74), St("cudaMemcpy", "dB", "B", 75),
  St("launch", "", "", 81),
  St("cudaDeviceSynchronize", "", "", 84),
  St("cudaMemcpy", "C", "dC", 87),
  St("cudaFree", "dA", "", 90), St("cudaFree", "dB", "", 91),
  St("cudaFree", "dC", "", 92),
  St("free", "A", "", 116), St("free", "B", "", 116), St("free", "C", "", 116),
  St("return", "", "", 117) >>

GemmProgram == <<
  St("malloc", "A", "", 103), St("malloc", "B", "", 104),
  St("malloc", "C", "", 105),
  St("fill", "A", "", 107), St("fill", "B", "", 108), St("fill", "C", "", 109),
  St("cudaMalloc", "dA", "", 70), St("cudaMalloc", "dB", "", 71),
  St("cudaMalloc", "dC", "", 72),
  St("cudaMemcpy", "dA", "A", 74), St("cudaMemcpy", "dB", "B", 75),
  St("launch", "", "", 81),
  St("cudaDeviceSynchronize", "", "", 84),
  St("cudaFree", "dA", "", 90), St("cudaFree", "dB", "", 91),
  St("cudaFree", "dC", "", 92),
  St("free", "A", "", 116), St("free", "B", "", 116), St("free", "C", "", 116),
  St("return", "", "", 117) >>

ConvGpuProgram == <<
  St("malloc", "input", "", 67), St("malloc", "weight", "", 68),
  St("malloc", "output", "", 69),
  St("fill", "input", "", 71), St("fill", "weight", "", 72),
  St("cudaMalloc", "d_input", "", 41), St("cudaMalloc", "d_weight", "", 42),
  St("cudaMalloc", "d_output", "", 43),
  St("cudaMemcpy", "d_input", "input", 45),
  St("cudaMemcpy", "d_weight", "weight", 46),
  St("launch", "", "", 52),
  St("cudaMemcpy", "output", "d_output", 54),
  St("cudaFree", "d_input", "", 56), St("cudaFree", "d_weight", "", 57),
  St("cudaFree", "d_output", "", 58),
  St("free", "input", "", 83), St("free", "weight", "", 84),
  St("free", "output", "", 85),
  St("return", "", "", 86) >>

ConvSeqProgram == <<
  St("m5op", "", "", 38),
  St("malloc", "input", "", 44), St("malloc", "weight", "", 45),
  St("malloc", "output", "", 46),
  St("fill", "input", "", 49), St("fill", "weight", "", 50),
  St("conv2d", "", "", 53),
  St("free", "input", "", 68), St("free", "weight", "", 69),
  St("free", "output", "", 70),
  St("m5op", "", "", 71),
  St("return", "", "", 72) >>

Program ==
  CASE prog = "gemm" -> GemmProgram
    [] prog = "convgpu" -> ConvGpuProgram
    [] OTHER -> ConvSeqProgram

Running == exit = "run" /\ hpc <= Len(Program)

Cur == Program[hpc]

\* gemm.cu wraps every device call in CHECK_CUDA; conv.cu calls them bare
Checked == prog = "gemm"

BufsOf(p) ==
  CASE p = "gemm" -> {"A", "B", "C", "dA", "dB", "dC"}
    [] p = "convgpu" ->
         {"input", "weight", "output", "d_input", "d_weight", "d_output"}
    [] OTHER -> {"input", "weight", "output"}

Init ==
  /\ prog \in Progs
  /\ dim \in DimsOf(prog)
  /\ \E x \in Inputs : pat = x.pat /\ junk = x.junk
  /\ hpc = 1
  /\ exit = "run"
  /\ mem = [b \in BufsOf(prog) |-> << >>]
  /\ stat = [b \in BufsOf(prog) |-> "none"]
  /\ nalloc = [b \in BufsOf(prog) |-> 0]
  /\ nfree = [b \in BufsOf(prog) |-> 0]
  /\ failed = FALSE
  /\ afterFail = FALSE
  /\ badUse = {}
  /\ kst = "idle"
  /\ thr = << >>
  /\ sh = << >>
  /\ lp = <<0, 0, 0>>
  /\ wcnt = IF prog = "convseq"
              THEN [i \in 0 .. HoOf(dim) * WoOf(dim) * dim.K - 1 |-> 0] ELSE << >>
  /\ kwrites = {}
  /\ oob = FALSE

kernelVars == <<kst, thr, sh, lp, wcnt, kwrites, oob>>

apiVars == <<failed, afterFail, badUse>>

\* every thread of the launched grid has run to the end of the kernel
KernelFinished ==
  kst \in {"idle", "fault"} \/ \A th \in DOMAIN thr : thr[th].pc = "done"

----------------------------------------------------------------------------
(* Host statements *)

\* malloc: the block is uninitialised
HostMalloc ==
  /\ Running /\ Cur.op = "malloc"
  /\ mem' = [mem EXCEPT ![Cur.buf] = Fresh(Cur.buf)]
  /\ stat' = [stat EXCEPT ![Cur.buf] = "alloc"]
  /\ nalloc' = [nalloc EXCEPT ![Cur.buf] = @ + 1]
  /\ hpc' = hpc + 1
  /\ UNCHANGED <<prog, dim, pat, junk, exit, nfree, apiVars, kernelVars>>

\* the initialisation loops of main
HostFill ==
  /\ Running /\ Cur.op = "fill"
  /\ mem' = [mem EXCEPT ![Cur.buf] =
               [i \in 0 .. Size(Cur.buf) - 1 |-> FillValue(Cur.buf, i)]]
  /\ hpc' = hpc + 1
  /\ UNCHANGED <<prog, dim, pat, junk, exit, stat, nalloc, nfree, apiVars,
                 kernelVars>>

\* m5_reset_stats / m5_dump_stats: simulator hooks, no effect on the program
M5Op ==
  /\ Running /\ Cur.op = "m5op"
  /\ hpc' = hpc + 1
  /\ UNCHANGED <<prog, dim, pat, junk, exit, mem, stat, nalloc, nfree, apiVars,
                 kernelVars>>

\* what follows a device call that returned ok (cudaSuccess) or not:
\* CHECK_CUDA prints and calls exit(1); a bare call goes on to the next
\* statement whatever the status
ApiReturn(ok) ==
  /\ failed' = (failed \/ ~ok)
  /\ afterFail' = (afterFail \/ failed)
  /\ IF ~ok /\ Checked
       THEN exit' = "exit1" /\ hpc' = hpc
       ELSE exit' = exit /\ hpc' = hpc + 1

\* the statuses a device call may return: any, unless the call is handed a
\* pointer that is not a live allocation or the context already holds an error
Outcomes(valid) == IF valid /\ kst # "fault" THEN BOOLEAN ELSE {FALSE}

\* a copy, a synchronize or a free that fails on valid arguments reports an
\* error of the device itself, which stays with the context: every later call
\* fails and no kernel runs.  (A failed cudaMalloc is out of memory, no more.)
Sticky(ok, valid) == kst' = IF valid /\ ~ok THEN "fault" ELSE kst

kernelRest == <<thr, sh, lp, wcnt, kwrites, oob>>

CudaMalloc ==
  /\ Running /\ Cur.op = "cudaMalloc"
  /\ \E ok \in Outcomes(TRUE) :
       /\ ApiReturn(ok)
       /\ IF ok
            THEN /\ mem' = [mem EXCEPT ![Cur.buf] = Fresh(Cur.buf)]
                 /\ stat' = [stat EXCEPT ![Cur.buf] = "alloc"]
                 /\ nalloc' = [nalloc EXCEPT ![Cur.buf] = @ + 1]
            ELSE UNCHANGED <<mem, stat, nalloc>>
  /\ UNCHANGED <<prog, dim, pat, junk, nfree, badUse, kernelVars>>

\* cudaMemcpy is ordered after the kernel launched before it (default stream)
CudaMemcpy ==
  /\ Running /\ Cur.op = "cudaMemcpy"
  /\ KernelFinished
  /\ LET dead == {b \in {Cur.buf, Cur.src} : stat[b] # "alloc"} IN
       /\ badUse' = badUse \cup dead
       /\ \E ok \in Outcomes(dead = {}) :
            /\ ApiReturn(ok)
            /\ Sticky(ok, dead = {})
            /\ mem' = IF ok THEN [mem EXCEPT ![Cur.buf] = mem[Cur.src]] ELSE mem
  /\ UNCHANGED <<prog, dim, pat, junk, stat, nalloc, nfree, kernelRest>>

CudaDeviceSynchronize ==
  /\ Running /\ Cur.op = "cudaDeviceSynchronize"
  /\ KernelFinished
  /\ \E ok \in Outcomes(TRUE) : ApiReturn(ok) /\ Sticky(ok, TRUE)
  /\ UNCHANGED <<prog, dim, pat, junk, mem, stat, nalloc, nfree, badUse,
                 kernelRest>>

CudaFree ==
  /\ Running /\ Cur.op = "cudaFree"
  /\ LET live == stat[Cur.buf] = "alloc" IN
       /\ badUse' = IF live THEN badUse ELSE badUse \cup {Cur.buf}
       /\ \E ok \in Outcomes(live) :
            /\ ApiReturn(ok)
            /\ Sticky(ok, live)
            /\ IF ok
                 THEN /\ mem' = [mem EXCEPT ![Cur.buf] = << >>]
                      /\ stat' = [stat EXCEPT ![Cur.buf] = "freed"]
                      /\ nfree' = [nfree EXCEPT ![Cur.buf] = @ + 1]
                 ELSE UNCHANGED <<mem, stat, nfree>>
  /\ UNCHANGED <<prog, dim, pat, junk, nalloc, kernelRest>>

HostFree ==
  /\ Running /\ Cur.op = "free"
  /\ mem' = [mem EXCEPT ![Cur.buf] = << >>]
  /\ stat' = [stat EXCEPT ![Cur.buf] = "freed"]
  /\ nfree' = [nfree EXCEPT ![Cur.buf] = @ + 1]
  /\ hpc' = hpc + 1
  /\ UNCHANGED <<prog, dim, pat, junk, exit, nalloc, apiVars, kernelVars>>

Return ==
  /\ Running /\ Cur.op = "return"
  /\ exit' = "exit0"
  /\ UNCHANGED <<prog, dim, pat, junk, hpc, mem, stat, nalloc, nfree, apiVars,
                 kernelVars>>

----------------------------------------------------------------------------
(* Kernel launch *)

\* dim3 block(TILE_N, TILE_M) over dim3 grid: a thread is <<bx, by, tx, ty>>
GemmThreads ==
  (0 .. GemmGrid(dim).x - 1) \X (0 .. GemmGrid(dim).y - 1)
    \X (0 .. TILE_N - 1) \X (0 .. TILE_M - 1)

\* dim3 block(16, 16, 1) over dim3 grid: a thread is <<bx, by, bz, tx, ty, tz>>
ConvThreads ==
  (0 .. ConvGrid(dim).x - 1) \X (0 .. ConvGrid(dim).y - 1)
    \X (0 .. ConvGrid(dim).z - 1)
    \X (0 .. BLOCK_X - 1) \X (0 .. BLOCK_Y - 1) \X (0 .. BLOCK_Z - 1)

Threads == IF prog = "gemm" THEN GemmThreads ELSE ConvThreads

BlockOf(th) == <<th[1], th[2]>>

Blocks == {BlockOf(th) : th \in GemmThreads}

\* __shared__ float sA[TILE_M][TILE_K], sB[TILE_K][TILE_N]: uninitialised
TileA == (0 .. TILE_M - 1) \X (0 .. TILE_K - 1)

TileB == (0 .. TILE_K - 1) \X (0 .. TILE_N - 1)

SharedInit ==
  [sA |-> [e \in TileA |-> junk], sB |-> [e \in TileB |-> junk],
   wA |-> [e \in TileA |-> 0], wB |-> [e \in TileB |-> 0]]

OutBuf ==
  CASE prog = "gemm" -> "dC"
    [] prog = "convgpu" -> "d_output"
    [] OTHER -> "output"

\* kernel<<<grid, block>>>(...): asynchronous, its status is not looked at.
\* Handed a pointer that is no live allocation the kernel faults, and in a
\* context that holds an error it does not run.
Launch ==
  /\ Running /\ Cur.op = "launch"
  /\ LET dead == {b \in DevBufs : stat[b] # "alloc"} IN
       /\ badUse' = badUse \cup dead
       /\ IF dead = {} /\ kst # "fault"
            THEN /\ kst' = "running"
                 /\ thr' = [th \in Threads |->
                             [pc |-> IF prog = "gemm" THEN "loop" ELSE "start",
                              sum |-> 0, t |-> 0, nbar |-> 0, nwr |-> 0]]
                 /\ sh' = IF prog = "gemm"
                            THEN [b \in Blocks |-> SharedInit] ELSE sh
                 /\ wcnt' = [i \in 0 .. Size(OutBuf) - 1 |-> 0]
            ELSE /\ kst' = "fault"
                 /\ UNCHANGED <<thr, sh, wcnt>>
  /\ afterFail' = (afterFail \/ failed)
  /\ hpc' = hpc + 1
  /\ UNCHANGED <<prog, dim, pat, junk, exit, mem, stat, nalloc, nfree, failed,
                 lp, kwrites, oob>>

----------------------------------------------------------------------------
(* gemm_kernel, one thread th = <<bx, by, tx, ty>> *)

Row(th) == th[2] * TILE_M + th[4]

Col(th) == th[1] * TILE_N + th[3]

\* a loop bound that drops the partial last tile
NumTiles_Floor == dim.K \div TILE_K

\* the loop bound (K+TILE_K-1)/TILE_K
NumTiles == (dim.K + TILE_K - 1) \div TILE_K

\* the tile loop skipped by the threads outside the matrix
LoopCond_Guarded(th) ==
  Row(th) < dim.M /\ Col(th) < dim.N /\ thr[th].t < NumTiles

\* for (int t=0; t<(K+TILE_K-1)/TILE_K; t++): the same test in every thread
LoopCond(th) == thr[th].t < NumTiles

\* if(row<M && tiled_k<K)
LoadAGuard(row, tiled_k) == row < dim.M /\ tiled_k < dim.K

\* the B load guarded on the column alone
LoadBGuard_NoK(tiled_row, col) == col < dim.N

\* if(tiled_row<K && col<N)
LoadBGuard(tiled_row, col) == tiled_row < dim.K /\ col < dim.N

\* A indexed column-major
AIdx_Transposed(row, tiled_k) == tiled_k * dim.M + row

AIdx(row, tiled_k) == row * dim.K + tiled_k

BIdx(tiled_row, col) == tiled_row * dim.N + col

CIdx(row, col) == row * dim.N + col

\* the element of sA and of sB a thread stores: [threadIdx.y][threadIdx.x]
SharedSlot(th) == <<th[4], th[3]>>

\* if(row<M && col<N) C[row*N + col] = sum
StoreGuard(row, col) == row < dim.M /\ col < dim.N

\* the second __syncthreads left out: straight on to the next iteration
AfterCompute_NoBarrier == "loop"

\* where a thread goes after the compute loop: the second __syncthreads
AfterCompute == "sync2"

\* load this thread's element of the A tile and of the B tile, then arrive at
\* the first __syncthreads
GemmLoad(th) ==
  /\ kst = "running" /\ prog = "gemm"
  /\ thr[th].pc = "loop" /\ LoopCond(th)
  /\ LET b == BlockOf(th)
         e == SharedSlot(th)
         tiled_k == thr[th].t * TILE_K + th[3]
         tiled_row == thr[th].t * TILE_K + th[4]
         ga == LoadAGuard(Row(th), tiled_k)
         gb == LoadBGuard(tiled_row, Col(th))
         va == IF ga THEN Rd("dA", AIdx(Row(th), tiled_k)) ELSE 0
         vb == IF gb THEN Rd("dB", BIdx(tiled_row, Col(th))) ELSE 0
     IN
       /\ sh' = [sh EXCEPT
                  ![b] = [sA |-> IF e \in TileA
                                   THEN [sh[b].sA EXCEPT ![e] = va] ELSE sh[b].sA,
                          sB |-> IF e \in TileB
                                   THEN [sh[b].sB EXCEPT ![e] = vb] ELSE sh[b].sB,
                          wA |-> IF e \in TileA
                                   THEN [sh[b].wA EXCEPT ![e] = @ + 1] ELSE sh[b].wA,
                          wB |-> IF e \in TileB
                                   THEN [sh[b].wB EXCEPT ![e] = @ + 1] ELSE sh[b].wB]]
       /\ oob' = (oob \/ e \notin TileA \/ e \notin TileB
                      \/ (ga /\ ~InBuf("dA", AIdx(Row(th), tiled_k)))
                      \/ (gb /\ ~InBuf("dB", BIdx(tiled_row, Col(th)))))
  /\ thr' = [thr EXCEPT ![th].pc = "sync1"]
  /\ UNCHANGED <<prog, dim, pat, junk, hpc, exit, mem, stat, nalloc, nfree,
                 apiVars, kst, lp, wcnt, kwrites>>

\* for(k=0;k<TILE_K;k++) sum += sA[threadIdx.y][k]*sB[k][threadIdx.x]
RECURSIVE TileDot(_, _, _, _)
TileDot(b, ty, tx, k) ==
  IF k >= TILE_K THEN 0
  ELSE sh[b].sA[<<ty, k>>] * sh[b].sB[<<k, tx>>] + TileDot(b, ty, tx, k + 1)

\* the compute loop (unrolled: one step), then on to AfterCompute
GemmCompute(th) ==
  /\ kst = "running" /\ prog = "gemm"
  /\ thr[th].pc = "compute"
  /\ thr' = [thr EXCEPT
              ![th] = [@ EXCEPT
                        !.sum = @ + TileDot(BlockOf(th), th[4], th[3], 0),
                        !.pc = AfterCompute,
                        !.t = IF AfterCompute = "loop" THEN @ + 1 ELSE @]]
  /\ UNCHANGED <<prog, dim, pat, junk, hpc, exit, mem, stat, nalloc, nfree,
                 apiVars, kst, sh, lp, wcnt, kwrites, oob>>

\* __syncthreads: no thread of the block passes before every thread of the
\* block has arrived at a barrier.  Those at the first go on to the compute
\* loop, those at the second to the next iteration (t++).
Barrier(b) ==
  /\ kst = "running" /\ prog = "gemm"
  /\ b \in Blocks
  /\ \A th \in DOMAIN thr :
       BlockOf(th) = b => thr[th].pc \in {"sync1", "sync2"}
  /\ thr' = [th \in DOMAIN thr |->
              IF BlockOf(th) # b THEN thr[th]
              ELSE [thr[th] EXCEPT
                     !.pc = IF @ = "sync1" THEN "compute" ELSE "loop",
                     !.t = IF thr[th].pc = "sync2" THEN @ + 1 ELSE @,
                     !.nbar = @ + 1]]
  /\ UNCHANGED <<prog, dim, pat, junk, hpc, exit, mem, stat, nalloc, nfree,
                 apiVars, kst, sh, lp, wcnt, kwrites, oob>>

\* after the loop: if(row<M && col<N) C[row*N + col] = sum; the thread ends
GemmStore(th) ==
  /\ kst = "running" /\ prog = "gemm"
  /\ thr[th].pc = "loop" /\ ~LoopCond(th)
  /\ LET g == StoreGuard(Row(th), Col(th))
         i == CIdx(Row(th), Col(th))
     IN
       /\ mem' = IF g /\ InBuf("dC", i)
                   THEN [mem EXCEPT !["dC"][i] = thr[th].sum] ELSE mem
       /\ wcnt' = IF g /\ InBuf("dC", i) THEN [wcnt EXCEPT ![i] = @ + 1] ELSE wcnt
       /\ kwrites' = IF g THEN kwrites \cup {"dC"} ELSE kwrites
       /\ oob' = (oob \/ (g /\ ~InBuf("dC", i)))
       /\ thr' = [thr EXCEPT ![th].pc = "done",
                             ![th].nwr = IF g THEN @ + 1 ELSE @]
  /\ UNCHANGED <<prog, dim, pat, junk, hpc, exit, stat, nalloc, nfree, apiVars,
                 kst, sh, lp>>

----------------------------------------------------------------------------
(* conv2d_kernel (conv.cu), one thread th = <<bx, by, bz, tx, ty, tz>> *)

\* h = blockIdx.y*blockDim.y + threadIdx.y, and so on
KerH(th) == th[2] * BLOCK_Y + th[5]

KerW(th) == th[1] * BLOCK_X + th[4]

KerK(th) == th[3] * BLOCK_Z + th[6]

\* if (h < Ho && w < Wo && k < K)
KerGuard(h, w, k) == h < Ho /\ w < Wo /\ k < dim.K

KerInIdx(h, w, i, j, c) == ((h + i) * dim.W + (w + j)) * dim.C + c

KerWtIdx(i, j, c, k) == ((i * dim.J + j) * dim.C + c) * dim.K + k

\* the output index under the K = 1 assumption of the comments
KerOutIdx_K1(h, w, k) == h * Wo + w

KerOutIdx(h, w, k) == (h * Wo + w) * dim.K + k

\* the three accumulation loops over i, j, c, innermost first
RECURSIVE KerSumC(_, _, _, _, _, _)
KerSumC(h, w, k, i, j, c) ==
  IF c >= dim.C THEN 0
  ELSE Rd("d_input", KerInIdx(h, w, i, j, c))
         * Rd("d_weight", KerWtIdx(i, j, c, k))
       + KerSumC(h, w, k, i, j, c + 1)

RECURSIVE KerSumJ(_, _, _, _, _)
KerSumJ(h, w, k, i, j) ==
  IF j >= dim.J THEN 0
  ELSE KerSumC(h, w, k, i, j, 0) + KerSumJ(h, w, k, i, j + 1)

RECURSIVE KerSumI(_, _, _, _)
KerSumI(h, w, k, i) ==
  IF i >= dim.I THEN 0 ELSE KerSumJ(h, w, k, i, 0) + KerSumI(h, w, k, i + 1)

\* every index the accumulation loops of one output element read
Taps == (0 .. dim.I - 1) \X (0 .. dim.J - 1) \X (0 .. dim.C - 1)

KerReadsInside(h, w, k) ==
  \A x \in Taps :
    /\ InBuf("d_input", KerInIdx(h, w, x[1], x[2], x[3]))
    /\ InBuf("d_weight", KerWtIdx(x[1], x[2], x[3], k))

\* the whole thread: it has no barrier, and what it reads no thread writes
ConvThread(th) ==
  /\ kst = "running" /\ prog = "convgpu"
  /\ thr[th].pc = "start"
  /\ LET h == KerH(th)
         w == KerW(th)
         k == KerK(th)
         g == KerGuard(h, w, k)
         o == KerOutIdx(h, w, k)
         v == KerSumI(h, w, k, 0)
     IN
       /\ mem' = IF g /\ InBuf("d_output", o)
                   THEN [mem EXCEPT !["d_output"][o] = v] ELSE mem
       /\ wcnt' = IF g /\ InBuf("d_output", o)
                    THEN [wcnt EXCEPT ![o] = @ + 1] ELSE wcnt
       /\ kwrites' = IF g THEN kwrites \cup {"d_output"} ELSE kwrites
       /\ oob' = (oob \/ (g /\ (~InBuf("d_output", o) \/ ~KerReadsInside(h, w, k))))
       /\ thr' = [thr EXCEPT ![th] = [@ EXCEPT !.pc = "done",
                                               !.sum = IF g THEN v ELSE @,
                                               !.nwr = IF g THEN @ + 1 ELSE @]]
  /\ UNCHANGED <<prog, dim, pat, junk, hpc, exit, stat, nalloc, nfree, apiVars,
                 kst, sh, lp>>

----------------------------------------------------------------------------
(* conv2d (part_000), the sequential loop nest *)

\* the input index without its channel
SeqInIdx_NoC(h, w, i, j, c) == ((h + i) * dim.W + (w + j)) * dim.C

SeqInIdx(h, w, i, j, c) == ((h + i) * dim.W + (w + j)) * dim.C + c

SeqWtIdx(i, j, c, k) == ((i * dim.J + j) * dim.C + c) * dim.K + k

SeqOutIdx(h, w, k) == (h * Wo + w) * dim.K + k

\* conv2d reads through the pointers it is handed: inb, wtb
RECURSIVE SeqSumC(_, _, _, _, _, _, _, _)
SeqSumC(inb, wtb, h, w, k, i, j, c) ==
  IF c >= dim.C THEN 0
  ELSE Rd(inb, SeqInIdx(h, w, i, j, c)) * Rd(wtb, SeqWtIdx(i, j, c, k))
       + SeqSumC(inb, wtb, h, w, k, i, j, c + 1)

RECURSIVE SeqSumJ(_, _, _, _, _, _, _)
SeqSumJ(inb, wtb, h, w, k, i, j) ==
  IF j >= dim.J THEN 0
  ELSE SeqSumC(inb, wtb, h, w, k, i, j, 0) + SeqSumJ(inb, wtb, h, w, k, i, j + 1)

RECURSIVE SeqSumI(_, _, _, _, _, _)
SeqSumI(inb, wtb, h, w, k, i) ==
  IF i >= dim.I THEN 0
  ELSE SeqSumJ(inb, wtb, h, w, k, i, 0) + SeqSumI(inb, wtb, h, w, k, i + 1)

SeqReadsInside(h, w, k) ==
  \A x \in Taps :
    /\ InBuf("input", SeqInIdx(h, w, x[1], x[2], x[3]))
    /\ InBuf("weight", SeqWtIdx(x[1], x[2], x[3], k))

\* the loop indices after the body at <<h, w, k>>: k++, then w++, then h++
SeqAdvance(h, w, k) ==
  IF k + 1 < dim.K THEN <<h, w, k + 1>>
  ELSE IF w + 1 < Wo THEN <<h, w + 1, 0>>
  ELSE <<h + 1, 0, 0>>

\* the loops run their body at all: h < Ho, w < Wo and k < K have a solution
SeqBodyRuns == lp[1] < Ho /\ Wo > 0 /\ dim.K > 0

\* one pass through the body of the three outer loops: one output element
SeqConvStep ==
  /\ Running /\ Cur.op = "conv2d" /\ SeqBodyRuns
  /\ LET h == lp[1]
         w == lp[2]
         k == lp[3]
         o == SeqOutIdx(h, w, k)
     IN
       /\ mem' = IF InBuf("output", o)
                   THEN [mem EXCEPT !["output"][o] =
                           SeqSumI("input", "weight", h, w, k, 0)]
                   ELSE mem
       /\ wcnt' = IF o \in DOMAIN wcnt THEN [wcnt EXCEPT ![o] = @ + 1] ELSE wcnt
       /\ kwrites' = kwrites \cup {"output"}
       /\ oob' = (oob \/ ~InBuf("output", o) \/ ~SeqReadsInside(h, w, k))
       /\ lp' = SeqAdvance(h, w, k)
  /\ UNCHANGED <<prog, dim, pat, junk, hpc, exit, stat, nalloc, nfree, apiVars,
                 kst, thr, sh>>

\* the outer loop ends and conv2d returns to main
SeqConvReturn ==
  /\ Running /\ Cur.op = "conv2d" /\ ~SeqBodyRuns
  /\ hpc' = hpc + 1
  /\ UNCHANGED <<prog, dim, pat, junk, exit, mem, stat, nalloc, nfree, apiVars,
                 kernelVars>>

----------------------------------------------------------------------------
(* The specifications *)

HostStep ==
  \/ HostMalloc
  \/ HostFill
  \/ M5Op
  \/ CudaMalloc
  \/ CudaMemcpy
  \/ Launch
  \/ CudaDeviceSynchronize
  \/ CudaFree
  \/ HostFree
  \/ Return
  \/ SeqConvStep
  \/ SeqConvReturn

GemmThreadStep ==
  \/ \E th \in DOMAIN thr : GemmLoad(th)
  \/ \E th \in DOMAIN thr : GemmCompute(th)
  \/ \E th \in DOMAIN thr : GemmStore(th)
  \/ \E b \in DOMAIN sh : Barrier(b)

ConvThreadStep == \E th \in DOMAIN thr : ConvThread(th)

Next == HostStep \/ GemmThreadStep \/ ConvThreadStep

Spec == Init /\ [][Next]_vars

\* the GEMM program alone, with the fairness of its scheduling: the host
\* goes on executing and the GPU goes on running the threads of a launched
\* grid for as long as one of them can take a step
GemmHostStep ==
  \/ HostMalloc
  \/ HostFill
  \/ CudaMalloc
  \/ CudaMemcpy
  \/ Launch
  \/ CudaDeviceSynchronize
  \/ CudaFree
  \/ HostFree
  \/ Return

GemmNext == GemmHostStep \/ GemmThreadStep

\* the control flow of gemm_kernel reads no data: one input set is enough
GemmInit == Init /\ prog = "gemm" /\ pat = "ramp"

FairGemmSpec == GemmInit /\ [][GemmNext]_vars /\ WF_vars(GemmNext)

----------------------------------------------------------------------------
(* Reference results, written from the mathematics and not from the loops *)

RECURSIVE SumOver(_, _)
SumOver(f, S) ==
  IF S = {} THEN 0
  ELSE LET x == CHOOSE y \in S : TRUE IN f[x] + SumOver(f, S \ {x})

\* the least n with n * b >= a
Ceil(a, b) == CHOOSE n \in 0 .. a : n * b >= a /\ (n = 0 \/ (n - 1) * b < a)

\* (A * B)[row][col] for the MxK matrix in buffer a and the KxN matrix in b
MatMul(a, b, row, col) ==
  SumOver([k \in 0 .. dim.K - 1 |->
             mem[a][row * dim.K + k] * mem[b][k * dim.N + col]],
          0 .. dim.K - 1)

\* the convolution sum of output element (h, w, k)
ConvSum(inb, wtb, h, w, k) ==
  SumOver([x \in Taps |->
             mem[inb][((h + x[1]) * dim.W + (w + x[2])) * dim.C + x[3]]
               * mem[wtb][((x[1] * dim.J + x[2]) * dim.C + x[3]) * dim.K + k]],
          Taps)

OutElems == (0 .. Ho - 1) \X (0 .. Wo - 1) \X (0 .. dim.K - 1)

\* the output buffer the sequential conv2d leaves when run on inb and wtb:
\* element SeqOutIdx(h, w, k) holds the sum its loop body accumulated
Conv2dSeq(inb, wtb) ==
  [o \in {SeqOutIdx(e[1], e[2], e[3]) : e \in OutElems} |->
     LET e == CHOOSE e \in OutElems : SeqOutIdx(e[1], e[2], e[3]) = o
     IN SeqSumI(inb, wtb, e[1], e[2], e[3], 0)]

Live(bs) == \A b \in bs : stat[b] = "alloc"

\* the launched GEMM grid has run to its end and its buffers are still there
GemmKernelDone ==
  prog = "gemm" /\ kst = "running" /\ KernelFinished /\ Live(DevBufs)

ConvKernelDone ==
  prog = "convgpu" /\ kst = "running" /\ KernelFinished /\ Live(DevBufs)

\* the sequential conv2d has just returned to main
SeqConvReturned ==
  prog = "convseq" /\ Running /\ hpc > 1 /\ Program[hpc - 1].op = "conv2d"

\* gemm_kernel_test has just returned to main (after its last cudaFree)
GemmTestReturned ==
  /\ prog = "gemm" /\ Running /\ hpc > 1
  /\ Program[hpc - 1].op = "cudaFree" /\ Cur.op = "free"

----------------------------------------------------------------------------
(* The claims *)

\* C1: when gemm_kernel has finished, under every interleaving of the grid's
\* threads and for every M, N, K >= 0 (multiples of the tile or not), every
\* entry C[row*N+col] of the device output is the sum over k < K of
\* A[row*K+k] * B[k*N+col]; for the all-ones input every entry equals K.
C1_GemmKernelComputesProduct ==
  GemmKernelDone =>
    \A row \in 0 .. dim.M - 1, col \in 0 .. dim.N - 1 :
      /\ mem["dC"][row * dim.N + col] = MatMul("dA", "dB", row, col)
      /\ pat = "const" => mem["dC"][row * dim.N + col] = dim.K

\* a finished run with a partial tile in every dimension and distinct inputs
C1_Witness ==
  GemmKernelDone /\ dim.M = 3 /\ dim.N = 1 /\ dim.K = 3 /\ pat = "ramp"
    /\ mem["dC"][2] = MatMul("dA", "dB", 2, 0) /\ mem["dC"][2] > 0

\* C2: when the sequential conv2d returns, every output element
\* output[(h*Wo+w)*K+k] is the sum over i < I, j < J, c < C of
\* input[((h+i)*W+(w+j))*C+c] * weight[((i*J+j)*C+c)*K+k]; with a constant
\* input a and a constant weight b every element equals I*J*C*a*b.
C2_SeqConvComputesSum ==
  SeqConvReturned =>
    /\ \A e \in OutElems :
         /\ mem["output"][(e[1] * Wo + e[2]) * dim.K + e[3]]
              = ConvSum("input", "weight", e[1], e[2], e[3])
         /\ pat = "const" =>
              mem["output"][(e[1] * Wo + e[2]) * dim.K + e[3]]
                = dim.I * dim.J * dim.C * 10 * 1
    /\ mem["output"] = Conv2dSeq("input", "weight")

C2_Witness ==
  SeqConvReturned /\ dim.I = 2 /\ dim.J = 2 /\ dim.C = 2 /\ dim.K = 2
    /\ dim.H = 3 /\ pat = "ramp" /\ mem["output"][3] > 0

\* C3 as stated: when gemm_kernel_test returns to main, the host buffer C
\* holds the product A*B.
C3_HostBufferHoldsProduct ==
  GemmTestReturned =>
    \A row \in 0 .. dim.M - 1, col \in 0 .. dim.N - 1 :
      mem["C"][row * dim.N + col] = MatMul("A", "B", row, col)

\* C3 as amended: when gemm_kernel_test returns to main, the host buffer C is
\* as main filled it (every entry 0.f); the product was stored, every entry
\* once, only to the device buffer dC, which is freed by then and was never
\* copied back.
C3_HostBufferUntouched ==
  GemmTestReturned =>
    /\ \A i \in 0 .. dim.M * dim.N - 1 : mem["C"][i] = 0 /\ wcnt[i] = 1
    /\ stat["dC"] = "freed"
    /\ kwrites \subseteq {"dC"}

C3_Witness ==
  GemmTestReturned /\ dim.M = 3 /\ dim.N = 2 /\ dim.K = 3
    /\ MatMul("A", "B", 2, 1) > 0 /\ mem["C"][5] = 0

\* C4 as stated: every thread passes exactly one barrier per tile iteration,
\* ceil(K / TILE_K) barriers over the whole run.
C4_OneBarrierPerIteration ==
  prog = "gemm" =>
    \A th \in DOMAIN thr :
      thr[th].pc = "done" => thr[th].nbar = Ceil(dim.K, TILE_K)

\* C4 as amended: every thread passes exactly two barriers per tile iteration
\* (one after the tile loads, one after the compute loop), 2 * ceil(K / TILE_K)
\* barriers over the whole run.
C4_TwoBarriersPerIteration ==
  prog = "gemm" =>
    \A th \in DOMAIN thr :
      CASE thr[th].pc \in {"loop", "sync1"} -> thr[th].nbar = 2 * thr[th].t
        [] thr[th].pc \in {"compute", "sync2"} ->
             thr[th].nbar = 2 * thr[th].t + 1
        [] OTHER ->
             /\ thr[th].pc = "done"
             /\ thr[th].t = Ceil(dim.K, TILE_K)
             /\ thr[th].nbar = 2 * Ceil(dim.K, TILE_K)

C4_Witness ==
  prog = "gemm" /\ dim.K = 3
    /\ \E th \in DOMAIN thr : thr[th].pc = "done" /\ thr[th].nbar = 4

\* C5: every device-API call of a host driver is checked: once a call has
\* returned a status other than success the process has exited with code 1
\* at that call, and no later device call, launch or free has run.
C5_FailedCallAborts == failed => exit = "exit1" /\ ~afterFail

\* C6: in every run that does not abort: each buffer is allocated at most
\* once and freed at most once, no buffer is used in a copy, a kernel or a
\* free while it is not allocated, device buffers are freed only after the
\* kernel launched on them has finished, and at normal exit every buffer has
\* been allocated exactly once and freed exactly once.
C6_AllocateComputeFree ==
  exit # "exit1" =>
    /\ \A b \in Bufs : nalloc[b] <= 1 /\ nfree[b] <= 1 /\ nfree[b] <= nalloc[b]
    /\ badUse = {}
    /\ \A b \in DevBufs : stat[b] = "freed" => kst = "running" /\ KernelFinished
    /\ kst = "running" /\ ~KernelFinished => Live(DevBufs)
    /\ exit = "exit0" =>
         \A b \in Bufs : nalloc[b] = 1 /\ nfree[b] = 1 /\ stat[b] = "freed"

\* C7: for any K >= 1 the CUDA conv2d_kernel, run over the launched grid
\* under every interleaving, leaves the output buffer the sequential conv2d
\* leaves on the same input and weight; every output element is stored once,
\* by one thread, and the threads outside the output store nothing.
C7_KernelEqualsSequential ==
  ConvKernelDone =>
    /\ mem["d_output"] = Conv2dSeq("d_input", "d_weight")
    /\ \A e \in OutElems :
         mem["d_output"][(e[1] * Wo + e[2]) * dim.K + e[3]]
           = ConvSum("d_input", "d_weight", e[1], e[2], e[3])
    /\ \A i \in 0 .. Ho * Wo * dim.K - 1 : wcnt[i] = 1
    /\ \A th \in DOMAIN thr :
         thr[th].nwr =
           IF KerH(th) < Ho /\ KerW(th) < Wo /\ KerK(th) < dim.K THEN 1 ELSE 0

\* two output channels, a grid wider than the output, distinct inputs
C7_Witness ==
  ConvKernelDone /\ dim.K = 2 /\ dim.C = 2 /\ dim.I = 2 /\ Ho = 1
    /\ pat = "ramp" /\ ~failed /\ mem["d_output"][1] > 0
    /\ \E th \in DOMAIN thr : thr[th].nwr = 0

\* C8: the shared tiles are race-free within a block: a thread about to read
\* tile t in the compute loop finds every element of sA and sB stored for
\* iteration t, by one store each; and a thread about to store an element for
\* an iteration shares its block with no thread still to read the tile before.
C8_SharedTilesRaceFree ==
  prog = "gemm" =>
    \A b \in DOMAIN sh :
      LET mates == {u \in DOMAIN thr : BlockOf(u) = b} IN
        \A th \in mates :
          CASE thr[th].pc = "compute" ->
                 /\ \A u \in mates :
                      thr[u].t = thr[th].t /\ thr[u].pc \in {"compute", "sync2"}
                 /\ \A e \in TileA : sh[b].wA[e] = thr[th].t + 1
                 /\ \A e \in TileB : sh[b].wB[e] = thr[th].t + 1
            [] thr[th].pc = "loop" ->
                 \A u \in mates :
                   thr[u].t = thr[th].t
                     /\ thr[u].pc \in {"loop", "sync1", "done"}
            [] thr[th].pc = "sync1" ->
                 \A u \in mates : u # th => SharedSlot(u) # SharedSlot(th)
            [] OTHER -> TRUE

\* a thread reading the second tile while a mate has finished with it
C8_Witness ==
  prog = "gemm" /\ dim.K = 3
    /\ \E th, u \in DOMAIN thr :
         /\ BlockOf(th) = BlockOf(u)
         /\ thr[th].pc = "compute" /\ thr[th].t = 1 /\ thr[u].pc = "sync2"

\* C9: gemm_kernel has no barrier divergence and terminates: every thread,
\* inside the matrix or not, runs the same number of tile iterations and
\* barriers as its block mates, no thread ends while a mate is in the loop,
\* and every thread of a launched grid eventually finishes.
C9_NoDivergenceAndTermination ==
  /\ [](\A th, u \in DOMAIN thr :
          BlockOf(th) = BlockOf(u) /\ thr[th].pc = "done" =>
            /\ thr[u].t = thr[th].t /\ thr[u].pc \in {"loop", "done"}
            /\ thr[u].nbar = thr[th].nbar)
  /\ []((kst = "running") => <>(\A th \in DOMAIN thr : thr[th].pc = "done"))

\* a finished grid with threads outside the matrix and two tile iterations
C9_Witness ==
  GemmKernelDone /\ dim.M = 3 /\ dim.N = 1 /\ dim.K = 3
    /\ \E th \in DOMAIN thr :
         (Row(th) >= dim.M \/ Col(th) >= dim.N)
           /\ thr[th].pc = "done" /\ thr[th].t = 2

\* C10: every access of the kernels and of the loop nest is inside its
\* buffer (A, B, C, sA, sB; input, weight, output), and they store to no
\* global buffer but their output.
C10_AccessesInBounds == ~oob /\ kwrites \subseteq {OutBuf}

\* a finished GEMM grid whose guards cut off a partial tile on every side
C10_Witness ==
  GemmKernelDone /\ dim.M = 3 /\ dim.N = 2 /\ dim.K = 1
    /\ kwrites = {"dC"} /\ \A i \in 0 .. 5 : wcnt[i] = 1

====
